---- MODULE Spec2Model ----
(***************************************************************************)
(* Model of raiden's ConnectionManager (src/raiden/connection_manager.py): *)
(* the controller's three fields and its lock, the four public operations  *)
(* with their gevent yield points, the per-partner join greenlets of one   *)
(* _open_channels pass, and the ledger they act on (channels with our      *)
(* deposit, the token balance, the other peers' channels).                 *)
(***************************************************************************)
EXTENDS Integers, Sequences, FiniteSets, TLC

\* ------------------------------------------------------------------ bounds
MaxTokens == 5
NumPeers == 2
MaxTarget == 2

\* ------------------------------------------------------------- addresses
BOOTSTRAP_ADDR == 0
OwnAddress == 0 - 1
Peers == 1..NumPeers
Partners == Peers \cup {BOOTSTRAP_ADDR}
\* The first node of the network: the one peer that may hold a channel with
\* the bootstrap address.
FirstNode == CHOOSE p \in Peers : TRUE
\* The channels the other nodes can have: between two peers, and the first
\* node's bootstrap channel.
PeerPairs ==
    {pr \in SUBSET Peers : Cardinality(pr) = 2} \cup {{FirstNode, BOOTSTRAP_ADDR}}

\* joinable_funds_target is a float; the model holds it in tenths.
JFT_DEN == 10
JftArgs == {0, 8}
FundsArgs == (0 - 1)..(MaxTokens + 1)
TargetArgs == (0 - 1)..MaxTarget
DepositArgs == 0..MaxTokens

NoCall == <<>>
NoJoins == <<>>

VARIABLES
    funds,                    \* self.funds
    initial_channel_target,   \* self.initial_channel_target
    joinable_funds_target,    \* self.joinable_funds_target, in tenths
    lock,                     \* self.lock: "free" or the operation holding it
    pc,                       \* where the lock holder is
    pending,                  \* the funds of a connect() past its checks, before the lock
    chan,                     \* ledger: our channel with each partner
    balance,                  \* ledger: our token balance
    net_channels,             \* ledger: the channels of the other nodes
    joins,                    \* the greenlets of the current pass: partner -> step
    joining,                  \* join_channel in flight: <<partner, partner_deposit, joining_funds>>
    channels_to_close,        \* leave: the snapshot
    unsettled,                \* leave: snapshot channels not yet settled
    entry,                    \* connect: what it found when it took the lock
    stalled,                  \* retry_connect: the ledger is as it was when the last pass began
    tx,                       \* the ledger call this step made, if any
    ret                       \* what this step returned to a caller, if anything

vars == <<funds, initial_channel_target, joinable_funds_target, lock, pc,
          pending, chan, balance, net_channels, joins, joining,
          channels_to_close, unsettled, entry, stalled, tx, ret>>

ctl == <<funds, initial_channel_target, joinable_funds_target>>
ledger == <<chan, balance, net_channels>>

\* ---------------------------------------------------------------- helpers
RECURSIVE SumOver(_, _)
SumOver(f, S) ==
    IF S = {} THEN 0
    ELSE LET x == CHOOSE y \in S : TRUE IN f[x] + SumOver(f, S \ {x})

Min2(a, b) == IF a <= b THEN a ELSE b

\* The orderings of a finite set, as sequences.
RECURSIVE Orderings(_)
Orderings(S) ==
    IF S = {} THEN {<<>>}
    ELSE UNION {{<<x>> \o s : s \in Orderings(S \ {x})} : x \in S}

Take(s, n) == SubSeq(s, 1, Min2(n, Len(s)))
Range(s) == {s[i] : i \in DOMAIN s}

\* ------------------------------------------------------------ ledger view
NoChannel == [st |-> "none", dep |-> 0]

\* views.get_channelstate_open: the partners of our open channels.
OpenChannels == {a \in Partners : chan[a].st = "open"}

\* views.get_our_capacity_for_token_network: our deposits in the open channels.
SumDeposits == SumOver([a \in Partners |-> chan[a].dep], OpenChannels)

\* views.count_token_network_channels.
QtyNetworkChannels == Cardinality(net_channels) + Cardinality(OpenChannels)

\* views.get_participants_addresses: every address that is party to a channel.
ParticipantsAddresses ==
    UNION net_channels
    \cup (IF OpenChannels = {} THEN {} ELSE OpenChannels \cup {OwnAddress})

\* ------------------------------------------------------- derived quantities
\* int(funds * (1 - jft) / target) in IEEE doubles falls one short of the
\* exact quotient where the rounded product lands just below an integer:
\* 1 - 0.8 is 0.19999999999999996 and 5 * that is 0.9999999999999998.
FloatShortfall(f, j, t) ==
    \/ f = 5 /\ j = 8 /\ t \in {0 - 1, 1}
    \/ f = 10 /\ j = 8 /\ t \in {0 - 2, 0 - 1, 1, 2}
    \/ f = 10 /\ j = 9 /\ t \in {0 - 1, 1}

\* int() truncates toward zero.
FundingFor(f, j, t) ==
    LET at == IF t < 0 THEN 0 - t ELSE t
        q == (f * (JFT_DEN - j)) \div (JFT_DEN * at)
        m == IF FloatShortfall(f, j, t) THEN q - 1 ELSE q
    IN  IF t < 0 THEN 0 - m ELSE m

initial_funding_per_partner ==
    IF initial_channel_target # 0
    THEN FundingFor(funds, joinable_funds_target, initial_channel_target)
    ELSE 0

funds_remaining ==
    IF funds > 0 THEN Min2(funds - SumDeposits, balance) ELSE 0

leaving_state == initial_channel_target < 1

\* ------------------------------------------------------ _find_new_partners
\* Mutant: the bootstrap address is not excluded.
Known_NoBootstrap == OpenChannels \cup {OwnAddress}

Known == OpenChannels \cup {BOOTSTRAP_ADDR, OwnAddress}

\* The shuffled list: any ordering of participants - known.
find_new_partners == Orderings(ParticipantsAddresses \ Known)

\* ---------------------------------------------------------- ChannelActions
\* api.channel_open: a channel that exists (open, or closed and not yet
\* settled) is a DuplicatedChannelError.
CanOpen(a) == chan[a].st = "none"

Opened(a) == [chan EXCEPT ![a] = [st |-> "open", dep |-> 0]]

OpenOutcome(a) == IF CanOpen(a) THEN "ok" ELSE "DuplicateChannel"

\* api.set_total_channel_deposit(partner, amount): how the call can end.  A
\* transaction can always revert; the total deposit of a channel only grows.
DepositOutcomes(a, amount) ==
    {"TransactionFailed"}
    \cup (IF chan[a].st # "open" THEN {"ChannelNotOpen"} ELSE {})
    \cup (IF amount - chan[a].dep > balance THEN {"InsufficientFunds"} ELSE {})
    \cup (IF /\ chan[a].st = "open"
             /\ amount > chan[a].dep
             /\ amount - chan[a].dep <= balance
          THEN {"ok"} ELSE {})

\* The ledger after the call ended with `out`.
Deposited(a, amount, out) ==
    /\ chan' = IF out = "ok" THEN [chan EXCEPT ![a].dep = amount] ELSE chan
    /\ balance' = IF out = "ok" THEN balance - (amount - chan[a].dep) ELSE balance
    /\ UNCHANGED net_channels

\* Whether the ledger is still as it was when the last pass began.
Track == stalled' = (stalled /\ ledger' = ledger)

\* A ledger call of the controller: its kind, the partners it names, the
\* amount (deposits) and how it ended.
Tx(kind, to, amount, out) ==
    [kind |-> kind, to |-> to, amount |-> amount, out |-> out]
NoTx == Tx("none", {}, 0, "none")

\* What a connect() that runs a pass found at line 124: no open channel of
\* this node (fresh), and the fields already equal to its arguments (repeat).
Entry(is_fresh, is_repeat) == [fresh |-> is_fresh, repeat |-> is_repeat]
NoEntry == Entry(FALSE, FALSE)

\* The end of a public call: the operation, "ok" or the exception raised, and
\* the value returned (leave).
Return(op, out, val) == [op |-> op, out |-> out, val |-> val]
NoReturn == Return("none", "none", {})

\* ----------------------------------------------------------- _open_channels
open_channels == OpenChannels \ {BOOTSTRAP_ADDR}

funded_channels ==
    {a \in open_channels : chan[a].dep >= initial_funding_per_partner}

nonfunded_channels == open_channels \ funded_channels

\* Mutant: a list that is empty passes for equal to 0.
list_is_empty(l) == l = <<>>

\* `possible_new_partners == 0` compares a list with the integer 0.
list_equals_zero(l) == FALSE

n_to_join == initial_channel_target - Cardinality(funded_channels)

\* Mutant: the test of line 326 is missing.
join_partners_NoTargetCheck ==
    IF nonfunded_channels = {} /\ ParticipantsAddresses \ Known = {}
    THEN {}
    ELSE {Take(nf \o np, n_to_join) :
            nf \in Orderings(nonfunded_channels),
            np \in {l \in find_new_partners : ~list_equals_zero(l)}}

\* Mutant: the new partners come before the nonfunded ones.
join_partners_NewFirst ==
    IF \/ Cardinality(funded_channels) >= initial_channel_target
       \/ (nonfunded_channels = {} /\ ParticipantsAddresses \ Known = {})
    THEN {}
    ELSE {Take(np \o nf, n_to_join) :
            nf \in Orderings(nonfunded_channels),
            np \in {l \in find_new_partners : ~list_equals_zero(l)}}

\* Mutant: every open channel is joined again, funded or not.
join_partners_Refund ==
    IF \/ Cardinality(funded_channels) >= initial_channel_target
       \/ (nonfunded_channels = {} /\ ParticipantsAddresses \ Known = {})
    THEN {}
    ELSE {Take(nf \o np, n_to_join) :
            nf \in Orderings(open_channels),
            np \in {l \in find_new_partners : ~list_equals_zero(l)}}

\* The lists (nonfunded_partners + possible_new_partners)[:n_to_join] can be;
\* the empty set when _open_channels returns False.
join_partners ==
    IF \/ Cardinality(funded_channels) >= initial_channel_target
       \/ (nonfunded_channels = {} /\ ParticipantsAddresses \ Known = {})
    THEN {}
    ELSE {Take(nf \o np, n_to_join) :
            nf \in Orderings(nonfunded_channels),
            np \in {l \in find_new_partners : ~list_equals_zero(l)}}

\* gevent.spawn(self._join_partner, partner) for each partner of the list.
Spawned(jl) == [a \in Range(jl) |-> "open"]

\* ------------------------------------------------------------------ connect
\* Mutant: the check of lines 119-122 is missing.
ConnectCheck_NoSignCheck(f) ==
    /\ pending = NoCall
    /\ IF balance < f
       THEN /\ ret' = Return("connect", "InvalidAmount", {})
            /\ UNCHANGED pending
       ELSE /\ pending' = <<f>>
            /\ ret' = NoReturn
    /\ tx' = NoTx
    /\ UNCHANGED <<ctl, lock, pc, ledger, joins, joining, channels_to_close,
                   unsettled, entry, stalled>>

\* Lines 111-122: the balance and funds checks, made before the lock.  The
\* other two arguments are not read before line 126.
ConnectCheck(f) ==
    /\ pending = NoCall
    /\ IF balance < f \/ f <= 0
       THEN /\ ret' = Return("connect", "InvalidAmount", {})
            /\ UNCHANGED pending
       ELSE /\ pending' = <<f>>
            /\ ret' = NoReturn
    /\ tx' = NoTx
    /\ UNCHANGED <<ctl, lock, pc, ledger, joins, joining, channels_to_close,
                   unsettled, entry, stalled>>

\* Mutant: the test of line 137 is inverted.
ConnectLocked_Inverted(t, j) ==
    /\ pending # NoCall
    /\ lock = "free"
    /\ funds' = pending[1]
    /\ initial_channel_target' = t
    /\ joinable_funds_target' = j
    /\ pending' = NoCall
    /\ UNCHANGED <<balance, net_channels, joining, channels_to_close, unsettled,
                   stalled>>
    /\ IF QtyNetworkChannels # 0
       THEN /\ chan' = IF CanOpen(BOOTSTRAP_ADDR) THEN Opened(BOOTSTRAP_ADDR) ELSE chan
            /\ tx' = Tx("open", {BOOTSTRAP_ADDR}, 0, OpenOutcome(BOOTSTRAP_ADDR))
            /\ ret' = Return("connect", OpenOutcome(BOOTSTRAP_ADDR), {})
            /\ UNCHANGED <<lock, pc, joins, entry>>
       ELSE /\ chan' = chan
            /\ tx' = NoTx
            /\ LET jls == join_partners'
               IN  IF jls = {}
                   THEN /\ ret' = Return("connect", "ok", {})
                        /\ UNCHANGED <<lock, pc, joins, entry>>
                   ELSE /\ \E jl \in jls : joins' = Spawned(jl)
                        /\ lock' = "connect"
                        /\ pc' = "joining"
                        /\ entry' = Entry(OpenChannels = {}, ctl = <<pending[1], t, j>>)
                        /\ ret' = NoReturn

\* Mutant: the locked section runs without the lock.
ConnectLocked_NoLock(t, j) ==
    /\ pending # NoCall
    /\ funds' = pending[1]
    /\ initial_channel_target' = t
    /\ joinable_funds_target' = j
    /\ pending' = NoCall
    /\ UNCHANGED <<balance, net_channels, joining, channels_to_close, unsettled,
                   stalled>>
    /\ IF QtyNetworkChannels = 0
       THEN /\ chan' = IF CanOpen(BOOTSTRAP_ADDR) THEN Opened(BOOTSTRAP_ADDR) ELSE chan
            /\ tx' = Tx("open", {BOOTSTRAP_ADDR}, 0, OpenOutcome(BOOTSTRAP_ADDR))
            /\ ret' = Return("connect", OpenOutcome(BOOTSTRAP_ADDR), {})
            /\ UNCHANGED <<lock, pc, joins, entry>>
       ELSE /\ chan' = chan
            /\ tx' = NoTx
            /\ LET jls == join_partners'
               IN  IF jls = {}
                   THEN /\ ret' = Return("connect", "ok", {})
                        /\ UNCHANGED <<lock, pc, joins, entry>>
                   ELSE /\ \E jl \in jls : joins' = Spawned(jl)
                        /\ lock' = "connect"
                        /\ pc' = "joining"
                        /\ entry' = Entry(OpenChannels = {}, ctl = <<pending[1], t, j>>)
                        /\ ret' = NoReturn

\* Lines 124-146: the locked section up to the spawn of the joins.
ConnectLocked(t, j) ==
    /\ pending # NoCall
    /\ lock = "free"
    /\ funds' = pending[1]
    /\ initial_channel_target' = t
    /\ joinable_funds_target' = j
    /\ pending' = NoCall
    /\ UNCHANGED <<balance, net_channels, joining, channels_to_close, unsettled,
                   stalled>>
    /\ IF QtyNetworkChannels = 0
       THEN /\ chan' = IF CanOpen(BOOTSTRAP_ADDR) THEN Opened(BOOTSTRAP_ADDR) ELSE chan
            /\ tx' = Tx("open", {BOOTSTRAP_ADDR}, 0, OpenOutcome(BOOTSTRAP_ADDR))
            /\ ret' = Return("connect", OpenOutcome(BOOTSTRAP_ADDR), {})
            /\ UNCHANGED <<lock, pc, joins, entry>>
       ELSE /\ chan' = chan
            /\ tx' = NoTx
            /\ LET jls == join_partners'
               IN  IF jls = {}
                   THEN /\ ret' = Return("connect", "ok", {})
                        /\ UNCHANGED <<lock, pc, joins, entry>>
                   ELSE /\ \E jl \in jls : joins' = Spawned(jl)
                        /\ lock' = "connect"
                        /\ pc' = "joining"
                        /\ entry' = Entry(OpenChannels = {}, ctl = <<pending[1], t, j>>)
                        /\ ret' = NoReturn

\* ------------------------------------------------------------ _join_partner
\* Lines 267-276: channel_open, DuplicatedChannelError passed over.
JoinOpen(a) ==
    /\ a \in DOMAIN joins
    /\ joins[a] = "open"
    /\ chan' = IF CanOpen(a) THEN Opened(a) ELSE chan
    /\ tx' = Tx("open", {a}, 0, OpenOutcome(a))
    /\ joins' = [joins EXCEPT ![a] = "deposit"]
    /\ ret' = NoReturn
    /\ UNCHANGED <<ctl, lock, pc, pending, balance, net_channels, joining,
                   channels_to_close, unsettled,
                   entry>>
    /\ Track

\* Mutant: a deposit that fails ends the joins of the whole batch.
JoinDeposit_Abort(a) ==
    /\ a \in DOMAIN joins
    /\ joins[a] = "deposit"
    /\ \E out \in DepositOutcomes(a, initial_funding_per_partner) :
        /\ Deposited(a, initial_funding_per_partner, out)
        /\ tx' = Tx("deposit", {a}, initial_funding_per_partner, out)
        /\ joins' = IF out = "ok"
                    THEN [joins EXCEPT ![a] = "done"]
                    ELSE [b \in DOMAIN joins |-> "done"]
    /\ ret' = NoReturn
    /\ UNCHANGED <<ctl, lock, pc, pending, joining, channels_to_close, unsettled,
                   entry>>
    /\ Track

\* Lines 278-290: the deposit, its three exceptions logged.
JoinDeposit(a) ==
    /\ a \in DOMAIN joins
    /\ joins[a] = "deposit"
    /\ \E out \in DepositOutcomes(a, initial_funding_per_partner) :
        /\ Deposited(a, initial_funding_per_partner, out)
        /\ tx' = Tx("deposit", {a}, initial_funding_per_partner, out)
    /\ joins' = [joins EXCEPT ![a] = "done"]
    /\ ret' = NoReturn
    /\ UNCHANGED <<ctl, lock, pc, pending, joining, channels_to_close, unsettled,
                   entry>>
    /\ Track

\* Mutant: _open_channels returns without waiting for its greenlets.
JoinAll_NoWait ==
    /\ pc = "joining"
    /\ joins' = NoJoins
    /\ IF lock = "connect"
       THEN /\ lock' = "free"
            /\ pc' = "idle"
            /\ entry' = NoEntry
            /\ ret' = Return("connect", "ok", {})
       ELSE /\ pc' = "loop"
            /\ ret' = NoReturn
            /\ UNCHANGED <<lock, entry>>
    /\ tx' = NoTx
    /\ UNCHANGED <<ctl, pending, ledger, joining, channels_to_close, unsettled,
                   stalled>>

\* Lines 346-347: gevent.joinall, and the return to connect or retry_connect.
JoinAll ==
    /\ pc = "joining"
    /\ \A a \in DOMAIN joins : joins[a] = "done"
    /\ joins' = NoJoins
    /\ IF lock = "connect"
       THEN /\ lock' = "free"
            /\ pc' = "idle"
            /\ entry' = NoEntry
            /\ ret' = Return("connect", "ok", {})
       ELSE /\ pc' = "loop"
            /\ ret' = NoReturn
            /\ UNCHANGED <<lock, entry>>
    /\ tx' = NoTx
    /\ UNCHANGED <<ctl, pending, ledger, joining, channels_to_close, unsettled,
                   stalled>>

\* ------------------------------------------------------------ retry_connect
RetryConnect ==
    /\ lock = "free"
    /\ lock' = "retry"
    /\ pc' = "loop"
    /\ tx' = NoTx
    /\ ret' = NoReturn
    /\ UNCHANGED <<ctl, pending, ledger, joins, joining, channels_to_close,
                   unsettled, entry, stalled>>

\* Lines 235-237: one evaluation of the loop condition and of _open_channels.
RetryLoop ==
    /\ lock = "retry"
    /\ pc = "loop"
    /\ IF funds_remaining > 0 /\ ~leaving_state /\ join_partners # {}
       THEN /\ \E jl \in join_partners : joins' = Spawned(jl)
            /\ pc' = "joining"
            /\ stalled' = TRUE
            /\ ret' = NoReturn
            /\ UNCHANGED lock
       ELSE /\ lock' = "free"
            /\ pc' = "idle"
            /\ stalled' = FALSE
            /\ ret' = Return("retry_connect", "ok", {})
            /\ UNCHANGED joins
    /\ tx' = NoTx
    /\ UNCHANGED <<ctl, pending, ledger, joining, channels_to_close, unsettled,
                   entry>>

\* ------------------------------------------------------------- join_channel
\* Mutant: the per-partner funding does not cap the amount.
joining_funds_NoCap(partner_deposit) == Min2(partner_deposit, funds_remaining)

joining_funds(partner_deposit) ==
    Min2(partner_deposit, Min2(funds_remaining, initial_funding_per_partner))

\* Mutant: the amount is capped by the remaining funds alone, and the
\* leaving state is not looked at.
JoinChannel_FundsOnly(partner, partner_deposit) ==
    /\ lock = "free"
    /\ IF Min2(partner_deposit, funds_remaining) <= 0
       THEN /\ ret' = Return("join_channel", "ok", {})
            /\ UNCHANGED <<lock, pc, joining>>
       ELSE /\ lock' = "join_channel"
            /\ pc' = "deposit"
            /\ joining' = <<partner, partner_deposit,
                           Min2(partner_deposit, funds_remaining)>>
            /\ ret' = NoReturn
    /\ tx' = NoTx
    /\ UNCHANGED <<ctl, pending, ledger, joins, channels_to_close, unsettled,
                   entry, stalled>>

\* Lines 201-208.
JoinChannel(partner, partner_deposit) ==
    /\ lock = "free"
    /\ IF joining_funds(partner_deposit) <= 0 \/ leaving_state
       THEN /\ ret' = Return("join_channel", "ok", {})
            /\ UNCHANGED <<lock, pc, joining>>
       ELSE /\ lock' = "join_channel"
            /\ pc' = "deposit"
            /\ joining' = <<partner, partner_deposit, joining_funds(partner_deposit)>>
            /\ ret' = NoReturn
    /\ tx' = NoTx
    /\ UNCHANGED <<ctl, pending, ledger, joins, channels_to_close, unsettled,
                   entry, stalled>>

\* The exceptions the try statement of lines 210-225 lets through.
JoinChannelRaises(out) == out \in {"TransactionFailed", "InsufficientFunds"}

\* Lines 210-225: the deposit; only ChannelIncorrectStateError is caught.
JoinChannelDeposit ==
    /\ lock = "join_channel"
    /\ \E out \in DepositOutcomes(joining[1], joining[3]) :
        /\ Deposited(joining[1], joining[3], out)
        /\ tx' = Tx("deposit", {joining[1]}, joining[3], out)
        /\ ret' = Return("join_channel",
                         IF JoinChannelRaises(out) THEN out ELSE "ok", {})
    /\ lock' = "free"
    /\ pc' = "idle"
    /\ joining' = NoCall
    /\ UNCHANGED <<ctl, pending, joins, channels_to_close, unsettled,
                   entry, stalled>>

\* -------------------------------------------------------------------- leave
\* api.channel_batch_close: the named channels that are open get closed.
BatchClosed(partner_addresses) ==
    [a \in Partners |->
        IF a \in partner_addresses /\ chan[a].st = "open"
        THEN [chan[a] EXCEPT !.st = "closed"] ELSE chan[a]]

\* Lines 160-183: the target, the snapshot and the batch close.
Leave ==
    /\ lock = "free"
    /\ lock' = "leave"
    /\ pc' = "wait"
    /\ initial_channel_target' = 0
    /\ channels_to_close' = OpenChannels
    /\ chan' = BatchClosed(OpenChannels)
    /\ tx' = Tx("close", OpenChannels, 0, "ok")
    /\ unsettled' = OpenChannels
    /\ ret' = NoReturn
    /\ UNCHANGED <<funds, joinable_funds_target, pending, balance, net_channels,
                   joins, joining, entry, stalled>>

\* Mutant: leave does not wait for the settlement.
LeaveReturn_NoWait ==
    /\ lock = "leave"
    /\ lock' = "free"
    /\ pc' = "idle"
    /\ ret' = Return("leave", "ok", channels_to_close)
    /\ channels_to_close' = {}
    /\ tx' = NoTx
    /\ UNCHANGED <<ctl, pending, ledger, joins, joining, unsettled, entry,
                   stalled>>

\* Lines 184-192: wait_for_settle is over, the lock is released.
LeaveReturn ==
    /\ lock = "leave"
    /\ unsettled = {}
    /\ lock' = "free"
    /\ pc' = "idle"
    /\ ret' = Return("leave", "ok", channels_to_close)
    /\ channels_to_close' = {}
    /\ tx' = NoTx
    /\ UNCHANGED <<ctl, pending, ledger, joins, joining, unsettled, entry,
                   stalled>>

\* Lines 148-152: leave_async returns its AsyncResult at once, whoever holds
\* the lock.  The greenlet it spawns calls leave() without registry_address:
\* a TypeError before the first statement of leave, which link() hands to
\* the AsyncResult.  The greenlet reads and writes nothing of the controller
\* or the ledger, so the step that spawns it also records how it ends.
\* The caller is the client that calls connect, between two of its connects.
LeaveAsync ==
    /\ pending = NoCall
    /\ lock # "connect"
    /\ ret' = Return("leave_async", "TypeError", {})
    /\ tx' = NoTx
    /\ UNCHANGED <<ctl, lock, pc, pending, ledger, joins, joining,
                   channels_to_close, unsettled, entry, stalled>>

\* -------------------------------------------------------------- environment
Quiet == tx' = NoTx /\ ret' = NoReturn

\* A peer opens a channel with this node.
PeerOpens(p) ==
    /\ CanOpen(p)
    /\ chan' = Opened(p)
    /\ Quiet
    /\ UNCHANGED <<ctl, lock, pc, pending, balance, net_channels, joins, joining,
                   channels_to_close, unsettled,
                   entry>>
    /\ Track

\* A peer closes its channel with this node.
PeerCloses(p) ==
    /\ chan[p].st = "open"
    /\ chan' = [chan EXCEPT ![p].st = "closed"]
    /\ Quiet
    /\ UNCHANGED <<ctl, lock, pc, pending, balance, net_channels, joins, joining,
                   channels_to_close, unsettled,
                   entry>>
    /\ Track

\* A closed channel is settled: it is gone and its deposit is back.
Settle(a) ==
    /\ chan[a].st = "closed"
    /\ chan' = [chan EXCEPT ![a] = NoChannel]
    /\ balance' = balance + chan[a].dep
    /\ unsettled' = unsettled \ {a}
    /\ Quiet
    /\ UNCHANGED <<ctl, lock, pc, pending, net_channels, joins, joining,
                   channels_to_close, entry>>
    /\ Track

\* Two other nodes open a channel between them.
OthersOpen(pr) ==
    /\ pr \notin net_channels
    /\ net_channels' = net_channels \cup {pr}
    /\ Quiet
    /\ UNCHANGED <<ctl, lock, pc, pending, chan, balance, joins, joining,
                   channels_to_close, unsettled,
                   entry>>
    /\ Track

\* ------------------------------------------------------------ specification
Init ==
    /\ funds = 0
    /\ initial_channel_target = 0
    /\ joinable_funds_target = 0
    /\ lock = "free"
    /\ pc = "idle"
    /\ pending = NoCall
    /\ chan = [a \in Partners |-> NoChannel]
    /\ balance = MaxTokens
    /\ net_channels = {}
    /\ joins = NoJoins
    /\ joining = NoCall
    /\ channels_to_close = {}
    /\ unsettled = {}
    /\ entry = NoEntry
    /\ stalled = FALSE
    /\ tx = NoTx
    /\ ret = NoReturn

Next ==
    \/ \E f \in FundsArgs : ConnectCheck(f)
    \/ \E t \in TargetArgs, j \in JftArgs : ConnectLocked(t, j)
    \/ \E a \in Partners : JoinOpen(a)
    \/ \E a \in Partners : JoinDeposit(a)
    \/ JoinAll
    \/ RetryConnect
    \/ RetryLoop
    \/ \E p \in Peers, d \in DepositArgs : JoinChannel(p, d)
    \/ JoinChannelDeposit
    \/ Leave
    \/ LeaveReturn
    \/ LeaveAsync
    \/ \E p \in Peers : PeerOpens(p)
    \/ \E p \in Peers : PeerCloses(p)
    \/ \E a \in Partners : Settle(a)
    \/ \E pr \in PeerPairs : OthersOpen(pr)

Spec == Init /\ [][Next]_vars

\* ------------------------------------------------------------------ claims
\* C1: the controller never makes a deposit whose success leaves the sum of
\* its own deposits in the open channels above `funds`.
C1_DepositsWithinFunds ==
    (tx.kind = "deposit" /\ tx.out = "ok") => SumDeposits <= funds

\* C2: connect with funds <= 0 or funds above the token balance ends with
\* InvalidAmount, changes none of the three fields and makes no ledger call.
C2_ConnectRejects ==
    [][\A f \in FundsArgs :
         ((f <= 0 \/ f > balance) /\ ConnectCheck(f)) =>
            /\ ret' = Return("connect", "InvalidAmount", {})
            /\ tx' = NoTx
            /\ pending' = NoCall
            /\ UNCHANGED <<ctl, ledger, lock, joins>>]_vars

C2_Witness ==
    /\ ret = Return("connect", "InvalidAmount", {})
    /\ funds > 0
    /\ OpenChannels # {}

\* C3: retry_connect does not start another pass after a pass that left the
\* ledger as it was (every join of it failed): it returns and frees the lock.
C3_NoSpin ==
    [][(RetryLoop /\ stalled) => lock' = "free"]_vars

\* C4: leave sets the target to 0, closes in one batch exactly the channels
\* open at its snapshot, closes nothing afterwards, returns only once every
\* channel of the snapshot is settled, and returns the snapshot.
C4_LeaveClosesSnapshot ==
    [][/\ Leave =>
            /\ initial_channel_target' = 0
            /\ channels_to_close' = OpenChannels
            /\ tx' = Tx("close", OpenChannels, 0, "ok")
            /\ \A a \in Partners :
                  chan'[a] = IF chan[a].st = "open"
                             THEN [st |-> "closed", dep |-> chan[a].dep]
                             ELSE chan[a]
       /\ (lock = "leave" /\ lock' = "leave") =>
            /\ channels_to_close' = channels_to_close
            /\ initial_channel_target' = 0
            /\ tx' = NoTx
       /\ (lock = "leave" /\ lock' # "leave") =>
            /\ ret' = Return("leave", "ok", channels_to_close)
            /\ channels_to_close \cap unsettled = {}
      ]_vars

C4_Witness ==
    /\ ret.op = "leave"
    /\ ret.val # {}
    /\ OpenChannels # {}

\* C5: a connect that takes the lock (its pending call is taken up) and
\* finds no channel in the token network opens one channel, to the bootstrap
\* address, deposits nothing, runs no pass of _open_channels and returns.
C5_Bootstrap ==
    [][(pending # NoCall /\ pending' = NoCall /\ QtyNetworkChannels = 0) =>
            /\ chan' = [chan EXCEPT ![BOOTSTRAP_ADDR] = [st |-> "open", dep |-> 0]]
            /\ chan[BOOTSTRAP_ADDR].st = "none"
            /\ tx' = Tx("open", {BOOTSTRAP_ADDR}, 0, "ok")
            /\ balance' = balance
            /\ joins' = NoJoins
            /\ lock' = "free"
            /\ ret' = Return("connect", "ok", {})]_vars

C5_Witness ==
    /\ tx = Tx("open", {BOOTSTRAP_ADDR}, 0, "ok")
    /\ ret = Return("connect", "ok", {})
    /\ initial_channel_target > 0

\* floor(f * (1 - j) / t) for t > 0, in exact arithmetic.
ExactFunding(f, j, t) == (f * (JFT_DEN - j)) \div (JFT_DEN * t)

\* C6: a connect(f, t, j) with t > 0 that found channels in the network and
\* none of this node joins at most t partners, never the bootstrap address,
\* and every deposit it makes is of floor(f * (1 - j) / t).
C6_SteadyState ==
    (lock = "connect" /\ entry.fresh /\ initial_channel_target > 0) =>
        /\ Cardinality(DOMAIN joins) <= initial_channel_target
        /\ BOOTSTRAP_ADDR \notin DOMAIN joins
        /\ tx.kind \in {"open", "deposit"} => tx.to \subseteq DOMAIN joins
        /\ tx.kind = "deposit" =>
              tx.amount = ExactFunding(funds, joinable_funds_target,
                                       initial_channel_target)

\* C7: no list _find_new_partners can return holds the bootstrap address, the
\* node's own address or the partner of an open channel, and every address
\* of it is a participant of the network.
C7_NewPartnersEligible ==
    \A l \in find_new_partners : \A i \in DOMAIN l :
        /\ l[i] # BOOTSTRAP_ADDR
        /\ l[i] # OwnAddress
        /\ l[i] \notin {a \in Partners : chan[a].st = "open"}
        /\ l[i] \in ParticipantsAddresses

C7_Witness ==
    /\ BOOTSTRAP_ADDR \in ParticipantsAddresses \ OpenChannels
    /\ OwnAddress \in ParticipantsAddresses
    /\ \E p \in Peers : chan[p].st = "open"
    /\ \E l \in find_new_partners : l # <<>>

\* C8: join_channel makes a ledger call, or is about to, only while
\* initial_channel_target >= 1 (the target cannot change under its lock):
\* in the leaving state it dispatches nothing.
C8_LeavingJoinIsNoop ==
    /\ lock = "join_channel" => initial_channel_target >= 1
    /\ (ret.op = "join_channel" /\ initial_channel_target < 1) => tx = NoTx

C8_Witness ==
    /\ ret = Return("join_channel", "ok", {})
    /\ initial_channel_target < 1
    /\ funds > 0
    /\ balance > 0
    /\ \E p \in Peers : chan[p].st = "open"

\* C9: none of connect, retry_connect, join_channel and leave ends with an
\* exception other than connect's InvalidAmount.
C9_OnlyInvalidAmount ==
    ret.op \in {"connect", "retry_connect", "join_channel", "leave"} =>
        \/ ret.out = "ok"
        \/ ret.op = "connect" /\ ret.out = "InvalidAmount"

\* C10: a connect that takes the lock with arguments equal to the fields
\* (those of the connect before it) leaves initial_funding_per_partner as it
\* is, joins no partner whose channel is funded, opens no bootstrap channel
\* when there is one, and its joins call the ledger for no other partner.
C10_ConnectIdempotent ==
    [][/\ (pending # NoCall /\ pending' = NoCall /\ ctl' = ctl) =>
            /\ initial_funding_per_partner' = initial_funding_per_partner
            /\ \A a \in DOMAIN joins' :
                  ~(chan[a].st = "open"
                    /\ chan[a].dep >= initial_funding_per_partner)
            /\ chan[BOOTSTRAP_ADDR].st # "none" => tx' = NoTx
       /\ (lock' = "connect" /\ entry'.repeat /\ tx'.kind \in {"open", "deposit"}) =>
            tx'.to \subseteq DOMAIN joins
      ]_vars

C10_Witness ==
    /\ lock = "connect"
    /\ entry.repeat
    /\ \E a \in Peers \ DOMAIN joins :
          chan[a].st = "open" /\ chan[a].dep >= initial_funding_per_partner
    /\ tx.kind = "deposit"

\* A pass of _open_channels begins in this step: from the loop of
\* retry_connect, which reads the state as it is, or from a connect that takes
\* the lock and finds channels in the network, which reads its own new fields.
PassByRetry == RetryLoop /\ funds_remaining > 0 /\ ~leaving_state
PassByConnect == pending # NoCall /\ pending' = NoCall /\ QtyNetworkChannels # 0

\* The pass returned False: nothing was spawned, no ledger call was made and
\* the caller left its locked section.
ReturnedFalse ==
    /\ joins' = NoJoins
    /\ tx' = NoTx
    /\ ledger' = ledger
    /\ lock' = "free"
    /\ ret'.out = "ok"

new_partners == ParticipantsAddresses \ Known

\* C11: a pass that finds as many funded channels (bootstrap aside) as the
\* target, or more, returns False and spawns no join, whatever nonfunded
\* channels and new partners there are.
C11_TargetMetNoJoin ==
    [][/\ (PassByRetry /\ Cardinality(funded_channels) >= initial_channel_target)
            => ReturnedFalse
       /\ (PassByConnect /\ Cardinality(funded_channels)' >= initial_channel_target')
            => ReturnedFalse
      ]_vars

C11_Witness ==
    /\ ret = Return("retry_connect", "ok", {})
    /\ funds_remaining > 0
    /\ ~leaving_state
    /\ Cardinality(funded_channels) >= initial_channel_target
    /\ new_partners # {}

\* C12: a pass that finds neither a nonfunded channel nor a new partner
\* returns False and spawns nothing; a pass short of its target that finds no
\* new partner but a nonfunded channel spawns joins, all of them to nonfunded
\* partners, and returns True (retry_connect goes round its loop again).
C12_EmptyCandidates ==
    [][/\ (PassByRetry /\ nonfunded_channels = {} /\ new_partners = {})
            => ReturnedFalse
       /\ (PassByConnect /\ nonfunded_channels' = {} /\ new_partners' = {})
            => ReturnedFalse
       /\ (/\ PassByRetry
           /\ Cardinality(funded_channels) < initial_channel_target
           /\ new_partners = {} /\ nonfunded_channels # {})
            => /\ joins' # NoJoins
               /\ DOMAIN joins' \subseteq nonfunded_channels
               /\ lock' = "retry" /\ pc' = "joining"
       /\ (/\ PassByConnect
           /\ Cardinality(funded_channels)' < initial_channel_target'
           /\ new_partners' = {} /\ nonfunded_channels' # {})
            => /\ joins' # NoJoins
               /\ DOMAIN joins' \subseteq nonfunded_channels'
               /\ lock' = "connect" /\ pc' = "joining"
       /\ (JoinAll /\ lock = "retry") => (lock' = "retry" /\ pc' = "loop")
      ]_vars

C12_Witness ==
    /\ lock = "retry"
    /\ pc = "joining"
    /\ new_partners = {}
    /\ joins # NoJoins
    /\ \A a \in DOMAIN joins : joins[a] = "open" /\ a \in nonfunded_channels

C15_JoinSelection ==
    [][(joins = NoJoins /\ joins' # NoJoins) =>
            /\ Cardinality(DOMAIN joins') =
                 Min2(initial_channel_target' - Cardinality(funded_channels)',
                      Cardinality(nonfunded_channels') + Cardinality(new_partners'))
            /\ DOMAIN joins' \subseteq nonfunded_channels' \cup new_partners'
            /\ (DOMAIN joins' \cap new_partners' # {}) =>
                  nonfunded_channels' \subseteq DOMAIN joins'
            /\ \A jl \in join_partners' :
                  \A i, k \in DOMAIN jl : jl[i] = jl[k] => i = k
      ]_vars

C15_Witness ==
    /\ pc = "joining"
    /\ tx = NoTx
    /\ joins # NoJoins
    /\ \A a \in DOMAIN joins : joins[a] = "open" /\ a \in nonfunded_channels
    /\ new_partners # {}

\* C16: a batch is over (its pass returns, the loop of retry_connect tests
\* its condition, the lock is freed) only when every join of it is done; its
\* ledger calls are made while the pass waits, under the lock; and no join
\* exists when the loop condition is evaluated or the lock is free.
C16_BatchComplete ==
    [][/\ (joins # NoJoins /\ (joins' = NoJoins \/ lock' = "free" \/ pc' = "loop")) =>
            \A a \in DOMAIN joins : joins[a] = "done"
       /\ (tx'.kind \in {"open", "deposit"} /\ lock \in {"connect", "retry"}) =>
            /\ pc = "joining" /\ pc' = "joining"
            /\ lock' = lock
            /\ tx'.to \subseteq DOMAIN joins
       /\ RetryLoop => joins = NoJoins
       /\ lock' = "free" => joins' = NoJoins
      ]_vars

C16_Witness ==
    /\ lock = "retry"
    /\ pc = "loop"
    /\ joins = NoJoins
    /\ stalled
    /\ \E a \in Peers : chan[a].st = "open" /\ chan[a].dep > 0

\* C17: while leave holds the lock, from the step that set the target to 0
\* to its return, no field of the controller changes and the controller opens
\* no channel and makes no deposit; and the fields change only in a step that
\* takes or passes the free lock, never under an operation that holds it, so
\* no operation reads one field of a connect with another field of before.
C17_LeaveExcludes ==
    [][/\ lock = "leave" =>
            /\ ctl' = ctl
            /\ initial_channel_target = 0
            /\ tx'.kind \notin {"open", "deposit"}
            /\ lock' \in {"leave", "free"}
            /\ joins' = NoJoins /\ joining' = NoCall
            /\ pending # NoCall => (pending' = pending \/ lock' = "free")
       /\ lock # "free" => ctl' = ctl
       /\ (funds' # funds \/ joinable_funds_target' # joinable_funds_target) =>
            /\ pending # NoCall /\ pending' = NoCall
            /\ funds' = pending[1]
      ]_vars

C17_Witness ==
    /\ lock = "leave"
    /\ unsettled # {}
    /\ pending # NoCall
    /\ funds > 0

\* C18: a join_channel(partner, partner_deposit) that goes on to deposit has
\* fixed, under the lock, the amount min(partner_deposit, funds remaining,
\* per-partner funding), which is positive and above none of the three; with
\* a minimum <= 0 it returns and calls nothing; and the deposit it makes is
\* of that amount, to that partner.
C18_JoinChannelAmount ==
    [][/\ (lock = "free" /\ lock' = "join_channel") =>
            /\ joining'[1] \in Peers /\ joining'[2] \in DepositArgs
            /\ joining'[3] =
                 Min2(joining'[2], Min2(funds_remaining, initial_funding_per_partner))
            /\ joining'[3] > 0
            /\ joining'[3] <= joining'[2]
            /\ joining'[3] <= funds_remaining
            /\ joining'[3] <= initial_funding_per_partner
            /\ tx' = NoTx
       /\ (lock = "free" /\ ret'.op = "join_channel") =>
            /\ lock' = "free"
            /\ tx' = NoTx
            /\ ledger' = ledger
       /\ (lock = "join_channel" /\ tx'.kind = "deposit") =>
            /\ tx'.to = {joining[1]}
            /\ tx'.amount = joining[3]
       /\ (lock = "join_channel" /\ lock' = "join_channel") =>
            /\ joining' = joining
            /\ ctl' = ctl
            /\ tx' = NoTx
      ]_vars

C18_Witness ==
    /\ ret.op = "join_channel"
    /\ tx.kind = "deposit" /\ tx.out = "ok"
    /\ tx.amount < initial_funding_per_partner
    /\ funds_remaining > 0

\* C19: the per-partner funding is floor(funds * (1 - jft) / target) for a
\* target > 0 and 0 for a target <= 0; it is never negative and the target
\* times it is within funds.
C19_FundingFormula ==
    /\ initial_funding_per_partner =
         IF initial_channel_target > 0
         THEN ExactFunding(funds, joinable_funds_target, initial_channel_target)
         ELSE 0
    /\ initial_funding_per_partner >= 0
    /\ initial_funding_per_partner * initial_channel_target <= funds

\* C20: when connect assigns funds, the token balance is at least the funds
\* assigned.
C20_FundsWithinBalance ==
    [][(pending # NoCall /\ pending' = NoCall) => balance' >= funds']_vars

\* C13: the AsyncResult of leave_async resolves as leave ends: with the
\* channels leave closed, the target at 0 and those channels settled, and
\* with no exception that leave does not raise.
C13_LeaveAsyncAsLeave ==
    ret.op = "leave_async" =>
        /\ ret.out = "ok"
        /\ initial_channel_target = 0
        /\ \A a \in ret.val : chan[a].st # "closed"

====
